---- MODULE Spec2Model ----
(***************************************************************************)
(* The list widget of src/src/App.tsx (component App) as a state machine.  *)
(*                                                                         *)
(* State: the five useState cells (items, selected, originalItems, page,   *)
(* query), the two refs that carry state (loadingRef, dragItem), and the   *)
(* /items requests that are in flight.  Every action is one callback run   *)
(* to completion on the UI thread together with the render it schedules    *)
(* and the effects of that render: the fetch effect (lines 60-79) lists    *)
(* `api` among its dependencies and `api` is a fresh axios instance on     *)
(* every render (line 56), so the effect body runs after EVERY render and  *)
(* only loadingRef decides whether a request starts.                       *)
(* A response's then-handler sets state, its finally-handler clears        *)
(* loadingRef in the next microtask, and the render the state change       *)
(* schedules runs after both: the fetch effect of that render finds        *)
(* loadingRef false and issues the current (page, query) again.            *)
(*                                                                         *)
(* Sequences are 1-based here; JavaScript's index i is i+1, and findIndex's*)
(* -1 is 0.                                                                *)
(***************************************************************************)
EXTENDS Integers, Sequences, FiniteSets, TLC

VARIABLES
    items,          \* useState<Item[]>            (line 47)
    selected,       \* useState<Set<number>>       (line 48), insertion-ordered
    originalItems,  \* useState<Item[]>            (line 49)
    page,           \* useState(1)                 (line 50)
    query,          \* useState('')                (line 51)
    loadingRef,     \* useRef(false)               (line 53)
    dragItem,       \* useRef<number | null>(null) (line 54), NoDrag for null
    pending,        \* the GET /items requests in flight, oldest first
    sent,           \* the requests issued by the last step, in issue order
    ev,             \* the last step: which callback ran, with which input
    lastFetched,    \* res.data.items of the last successful GET /items
    startSel,       \* the ids selected when the current run of toggles began
    oddToggled,     \* the ids toggled an odd number of times in that run
    asked,          \* the pages of the first and of the last GET /items issued
                    \* for the current query since it became the query (0: none)
    net             \* the remote side, followed in SyncSpec only: the stored
                    \* selection, the /save-selection posts under way, the
                    \* server's answer to the GET in flight, the gestures made

\* the component's own state, with its observation variables
appVars == <<items, selected, originalItems, page, query, loadingRef, dragItem,
             pending, sent, ev, lastFetched, startSel, oddToggled, asked>>

vars == <<appVars, net>>

---------------------------------------------------------------------------
\* Bounds of the model.

\* scrolling stops incrementing page at MaxPage
MaxPage == 2

\* a response is only delivered while the list stays within MaxLen items
MaxLen == 4

---------------------------------------------------------------------------
\* The remote API behind GET /items: a fixed catalogue, filtered by `query`
\* and cut into pages.  Pages of one query are disjoint and duplicate-free.

Ids == 1..3

NoDrag == 0

Queries == {"", "a"}

Name(i) == CASE i = 1 -> "A" [] i = 2 -> "B" [] i = 3 -> "C" [] OTHER -> "D"

Item(i) == [id |-> i, name |-> Name(i)]

PageSize == 2

Catalogue(q) ==
    IF q = "" THEN <<Item(1), Item(2), Item(3)>> ELSE <<Item(1), Item(3)>>

Min(a, b) == IF a < b THEN a ELSE b

ServerPage(p, q) ==
    LET all == Catalogue(q)
        lo  == (p - 1) * PageSize + 1
        hi  == Min(p * PageSize, Len(all))
    IN  IF lo > hi THEN <<>> ELSE SubSeq(all, lo, hi)

\* The `selected` arrays the server may report (res.data.selected).
ServerSelections == {<<>>, <<2>>, <<3, 1, 3>>}

---------------------------------------------------------------------------
\* Helpers: JavaScript arrays and Sets.

Range(s) == {s[i] : i \in 1..Len(s)}

IdsOf(its) == [i \in 1..Len(its) |-> its[i].id]

\* Array.prototype.findIndex on item ids; 0 when nothing matches.
FindIndex(its, id) ==
    IF \E i \in 1..Len(its) : its[i].id = id
    THEN CHOOSE i \in 1..Len(its) :
            /\ its[i].id = id
            /\ \A j \in 1..(i - 1) : its[j].id # id
    ELSE 0

\* arr.splice(i, 1) at the 1-based position i: the array without that element.
RemoveAt(s, i) == SubSeq(s, 1, i - 1) \o SubSeq(s, i + 1, Len(s))

\* arr.splice(i, 0, x): x inserted so that it stands at 1-based position i;
\* splice clamps a start beyond the end to the end.
InsertAt(s, i, x) ==
    LET k == Min(i, Len(s) + 1)
    IN  SubSeq(s, 1, k - 1) \o <<x>> \o SubSeq(s, k, Len(s))

\* Set.prototype.has / add / delete on an insertion-ordered Set.
SetHas(s, x) == \E i \in 1..Len(s) : s[i] = x

SetAdd(s, x) == IF SetHas(s, x) THEN s ELSE Append(s, x)

SetDelete(s, x) == SelectSeq(s, LAMBDA y : y # x)

\* new Set(array): the first occurrence of every element, in array order.
RECURSIVE NewSet(_)
NewSet(arr) ==
    IF arr = <<>> THEN <<>>
    ELSE LET front == NewSet(SubSeq(arr, 1, Len(arr) - 1))
         IN  SetAdd(front, arr[Len(arr)])

\* Array.from(set): the members in insertion order.
ArrayFrom(s) == s

---------------------------------------------------------------------------
\* Requests.

GetItems(p, q) == [url |-> "/items", page |-> p, query |-> q, body |-> <<>>]

SaveSelection(arr) ==
    [url |-> "/save-selection", page |-> 0, query |-> "", body |-> arr]

SaveOrder(order) ==
    [url |-> "/save-order", page |-> 0, query |-> "", body |-> order]

\* The record of a step: the callback, its id argument (0 when it has none),
\* the query and page it concerns (of the request, for a response), for a
\* scroll whether the list was within 10 px of its bottom, and for a response
\* the `selected` array the server reported.
Event(op, id, q, p, near, sel) ==
    [op |-> op, id |-> id, query |-> q, page |-> p, near |-> near,
     selected |-> sel]

\* The toggle history after a step that is not a toggle: a new run begins.
NewRun(sel) == /\ startSel' = Range(sel)
               /\ oddToggled' = {}

\* The request history after a step: `changed` tells whether the step changed
\* the query; the step's requests are read from sent'.
NoteAsked(changed) ==
    LET base == IF changed THEN [first |-> 0, last |-> 0] ELSE asked
        gets == SelectSeq(sent', LAMBDA r : r.url = "/items")
    IN  asked' = IF gets = <<>> THEN base
                 ELSE [first |-> IF base.first = 0 THEN gets[1].page
                                 ELSE base.first,
                       last  |-> gets[Len(gets)].page]

---------------------------------------------------------------------------
\* The fetch effect, lines 60-79.

\* (the effect without its guard)
EffectRunsUnguarded(loading) == TRUE

\* line 61: `if (loadingRef.current) return;`
EffectRuns(loading) == ~loading

\* What the fetch effect of a render with (p, q) issues, lines 61-65.
EffectRequests(loading, p, q) ==
    IF EffectRuns(loading) THEN <<GetItems(p, q)>> ELSE <<>>

\* loadingRef after the effect, line 62.
EffectLoading(loading) == IF EffectRuns(loading) THEN TRUE ELSE loading

\* (the then-handler appending whatever the page)
ThenHandlerAlwaysAppends(prev, p, res) ==
    [items         |-> prev \o res.items,
     originalItems |-> res.items,
     selected      |-> NewSet(res.selected)]

\* (the then-handler snapshotting the whole list instead of the page)
ThenHandlerSnapshotsList(prev, p, res) ==
    [items         |-> IF p = 1 THEN res.items ELSE prev \o res.items,
     originalItems |-> IF p = 1 THEN res.items ELSE prev \o res.items,
     selected      |-> NewSet(res.selected)]

\* (the then-handler merging the reported selection into the local one)
ThenHandlerMergesSelection(prev, p, res) ==
    [items         |-> IF p = 1 THEN res.items ELSE prev \o res.items,
     originalItems |-> res.items,
     selected      |-> NewSet(selected \o res.selected)]

\* (the then-handler reading the current page instead of the closure's)
ThenHandlerUsesCurrentPage(prev, p, res) ==
    [items         |-> IF page = 1 THEN res.items ELSE prev \o res.items,
     originalItems |-> res.items,
     selected      |-> NewSet(res.selected)]

\* (the then-handler leaving the local selection alone)
ThenHandlerKeepsSelection(prev, p, res) ==
    [items         |-> IF p = 1 THEN res.items ELSE prev \o res.items,
     originalItems |-> res.items,
     selected      |-> selected]

\* (the then-handler putting the fetched page in front)
ThenHandlerPrepends(prev, p, res) ==
    [items         |-> IF p = 1 THEN res.items ELSE res.items \o prev,
     originalItems |-> res.items,
     selected      |-> NewSet(res.selected)]

\* The then-handler, lines 66-72; p is the page of the render whose effect
\* issued the request (the closure's `page`), prev the current items.
ThenHandler(prev, p, res) ==
    [items         |-> IF p = 1 THEN res.items ELSE prev \o res.items,
     originalItems |-> res.items,
     selected      |-> NewSet(res.selected)]

\* (loadingRef cleared on success only)
FinallyKeepsLoading(loading) == loading

\* The finally-handler, lines 76-78.
FinallyLoading(loading) == FALSE

AppInit ==
    \* after the first render and its effects: the fetch effect has issued
    \* GET /items?page=1&query= and the reset effect's setPage(1) changed nothing
    /\ items = <<>>
    /\ selected = <<>>
    /\ originalItems = <<>>
    /\ page = 1
    /\ query = ""
    /\ loadingRef = EffectLoading(FALSE)
    /\ dragItem = NoDrag
    /\ pending = EffectRequests(FALSE, 1, "")
    /\ sent = EffectRequests(FALSE, 1, "")
    /\ ev = Event("mount", 0, "", 1, FALSE, <<>>)
    /\ lastFetched = <<>>
    /\ startSel = {}
    /\ oddToggled = {}
    /\ asked = [first |-> 1, last |-> 1]

\* The remote side at rest; Spec leaves it there and lets every response
\* report any of ServerSelections.
NetIdle == [selected |-> <<>>, saves |-> <<>>, reply |-> <<>>, gestures |-> 0]

Init == AppInit /\ net = NetIdle

\* A GET /items request settles successfully: then (66-72), finally (76-78),
\* then the render the three setState calls schedule, and that render's fetch
\* effect, which finds loadingRef already cleared.
ResponseOk(i, sel) ==
    /\ i \in 1..Len(pending)
    /\ LET req  == pending[i]
           res  == [items |-> ServerPage(req.page, req.query), selected |-> sel]
           new  == ThenHandler(items, req.page, res)
           load == FinallyLoading(loadingRef)
       IN  /\ Len(new.items) <= MaxLen
           /\ items' = new.items
           /\ originalItems' = new.originalItems
           /\ selected' = new.selected
           /\ lastFetched' = res.items
           /\ loadingRef' = EffectLoading(load)
           /\ pending' = RemoveAt(pending, i) \o EffectRequests(load, page, query)
           /\ sent' = EffectRequests(load, page, query)
           /\ ev' = Event("response", 0, req.query, req.page, FALSE, sel)
           /\ NewRun(new.selected)
    /\ NoteAsked(FALSE)
    /\ UNCHANGED <<page, query, dragItem>>

\* A GET /items request fails: catch (73-75) logs, finally (76-78) clears
\* loadingRef.  No state is set, so nothing renders and no effect runs.
ResponseError(i) ==
    /\ i \in 1..Len(pending)
    /\ loadingRef' = FinallyLoading(loadingRef)
    /\ pending' = RemoveAt(pending, i)
    /\ sent' = <<>>
    /\ ev' = Event("error", 0, pending[i].query, pending[i].page, FALSE, <<>>)
    /\ NewRun(selected)
    /\ UNCHANGED <<items, selected, originalItems, page, query, dragItem,
                   lastFetched, asked>>

---------------------------------------------------------------------------
\* handleScroll, lines 85-92.

\* (the scroll handler without the loadingRef test)
ScrollIncrementsUnguarded(loading, nearBottom) == nearBottom

\* lines 86 and 88: the list is mounted, no fetch is running, and the scroll
\* position is within 10 px of the bottom.
ScrollIncrements(loading, nearBottom) == ~loading /\ nearBottom

\* line 89
ScrollPage(prev) == prev + 1

\* A scroll event of the list element; an empty list has nothing to scroll.
HandleScroll(nearBottom) ==
    /\ items # <<>>
    /\ ev' = Event("scroll", 0, query, page, nearBottom, <<>>)
    /\ NewRun(selected)
    /\ IF ScrollIncrements(loadingRef, nearBottom)
       THEN /\ page < MaxPage
            /\ page' = ScrollPage(page)
            \* the render with the new page, then its fetch effect
            /\ loadingRef' = EffectLoading(loadingRef)
            /\ pending' = pending \o EffectRequests(loadingRef, page', query)
            /\ sent' = EffectRequests(loadingRef, page', query)
       ELSE /\ sent' = <<>>
            /\ UNCHANGED <<page, loadingRef, pending>>
    /\ NoteAsked(FALSE)
    /\ UNCHANGED <<items, selected, originalItems, query, dragItem, lastFetched>>

---------------------------------------------------------------------------
\* handleToggleSelect, lines 94-109.

\* (a toggle that only ever adds)
ToggleSetOnlyAdds(prev, id) == SetAdd(prev, id)

\* lines 96-101
ToggleSet(prev, id) ==
    IF SetHas(prev, id) THEN SetDelete(prev, id) ELSE SetAdd(prev, id)

\* (the post reading the rendered `selected` instead of newSet)
TogglePostStale(newSet) == SaveSelection(ArrayFrom(selected))

\* lines 103-105
TogglePost(newSet) == SaveSelection(ArrayFrom(newSet))

\* The checkbox of a rendered item changes.  The updater computes the new Set
\* and posts it; the render follows, and its fetch effect.
HandleToggleSelect(id) ==
    /\ id \in Range(IdsOf(items))
    /\ LET newSet == ToggleSet(selected, id)
       IN  /\ selected' = newSet
           /\ sent' = <<TogglePost(newSet)>>
                        \o EffectRequests(loadingRef, page, query)
    /\ loadingRef' = EffectLoading(loadingRef)
    /\ pending' = pending \o EffectRequests(loadingRef, page, query)
    /\ ev' = Event("toggle", id, query, page, FALSE, <<>>)
    /\ startSel' = startSel
    /\ oddToggled' = IF id \in oddToggled THEN oddToggled \ {id}
                                           ELSE oddToggled \cup {id}
    /\ NoteAsked(FALSE)
    /\ UNCHANGED <<items, originalItems, page, query, dragItem, lastFetched>>

---------------------------------------------------------------------------
\* handleDragStart, lines 111-113: only a ref changes, nothing renders.

HandleDragStart(id) ==
    /\ id \in Range(IdsOf(items))
    /\ dragItem' = id
    /\ sent' = <<>>
    /\ ev' = Event("dragStart", id, query, page, FALSE, <<>>)
    /\ NewRun(selected)
    /\ UNCHANGED <<items, selected, originalItems, page, query, loadingRef,
                   pending, lastFetched, asked>>

---------------------------------------------------------------------------
\* handleDrop, lines 115-135.

\* (the early return without the same-item test)
DropReturnsEarlyNullOnly(draggedItemId, targetId) == draggedItemId = NoDrag

\* line 118
DropReturnsEarly(draggedItemId, targetId) ==
    draggedItemId = NoDrag \/ draggedItemId = targetId

\* line 124
DropIndexMissing(draggedItemIndex, targetItemIndex) ==
    draggedItemIndex = 0 \/ targetItemIndex = 0

\* (the two items exchanged)
DropItemsSwap(its, draggedItemIndex, targetItemIndex) ==
    [its EXCEPT ![draggedItemIndex] = its[targetItemIndex],
                ![targetItemIndex] = its[draggedItemIndex]]

\* (the dragged item inserted at the target's index AFTER the removal)
DropItemsBeforeTarget(its, draggedItemIndex, targetItemIndex) ==
    InsertAt(RemoveAt(its, draggedItemIndex),
             IF draggedItemIndex < targetItemIndex
             THEN targetItemIndex - 1 ELSE targetItemIndex,
             its[draggedItemIndex])

\* lines 126-128: the dragged item is removed, then inserted at the index
\* the target had BEFORE the removal.
DropItems(its, draggedItemIndex, targetItemIndex) ==
    InsertAt(RemoveAt(its, draggedItemIndex), targetItemIndex,
             its[draggedItemIndex])

\* (the post reading the rendered `items` instead of newItems)
DropPostStale(newItems) == SaveOrder(IdsOf(items))

\* lines 132-134
DropPost(newItems) == SaveOrder(IdsOf(newItems))

\* Whether a drop of the dragged item on targetId changes anything.
DropEffective(its, draggedItemId, targetId) ==
    /\ ~DropReturnsEarly(draggedItemId, targetId)
    /\ ~DropIndexMissing(FindIndex(its, draggedItemId), FindIndex(its, targetId))

\* The dragged item is dropped on a rendered item.
HandleDrop(targetId) ==
    /\ targetId \in Range(IdsOf(items))
    /\ ev' = Event("drop", targetId, query, page, FALSE, <<>>)
    /\ NewRun(selected)
    /\ IF DropEffective(items, dragItem, targetId)
       THEN LET newItems == DropItems(items, FindIndex(items, dragItem),
                                      FindIndex(items, targetId))
            IN  /\ items' = newItems
                /\ sent' = <<DropPost(newItems)>>
                             \o EffectRequests(loadingRef, page, query)
                /\ loadingRef' = EffectLoading(loadingRef)
                /\ pending' = pending \o EffectRequests(loadingRef, page, query)
       ELSE /\ sent' = <<>>
            /\ UNCHANGED <<items, loadingRef, pending>>
    /\ NoteAsked(FALSE)
    /\ UNCHANGED <<selected, originalItems, page, query, dragItem, lastFetched>>

---------------------------------------------------------------------------
\* handleSearchChange, lines 137-145, and the reset effect, lines 81-83.

\* (the page kept across a query change)
SearchPageKeeps(prev) == prev

\* line 140, and line 82 when the render's query differs from the last one's
SearchPage(prev) == 1

\* (a query change that never restores the list)
SearchItemsKeeps(q, its, orig) == its

\* lines 142-144
SearchItems(q, its, orig) == IF q = "" THEN orig ELSE its

\* The search box's value changes to q.  The render has (1, q); its fetch
\* effect runs first, then the reset effect, whose setPage(1) changes nothing.
HandleSearchChange(q) ==
    /\ q \in Queries
    /\ q # query
    /\ query' = q
    /\ page' = SearchPage(page)
    /\ items' = SearchItems(q, items, originalItems)
    /\ loadingRef' = EffectLoading(loadingRef)
    /\ pending' = pending \o EffectRequests(loadingRef, page', q)
    /\ sent' = EffectRequests(loadingRef, page', q)
    /\ ev' = Event("search", 0, q, page', FALSE, <<>>)
    /\ NewRun(selected)
    /\ NoteAsked(TRUE)
    /\ UNCHANGED <<selected, originalItems, dragItem, lastFetched>>

---------------------------------------------------------------------------
Next ==
    \/ /\ \E i \in 1..Len(pending), sel \in ServerSelections : ResponseOk(i, sel)
       /\ UNCHANGED net
    \/ /\ \E i \in 1..Len(pending) : ResponseError(i)
       /\ UNCHANGED net
    \/ /\ \E nearBottom \in BOOLEAN : HandleScroll(nearBottom)
       /\ UNCHANGED net
    \/ /\ \E id \in Ids : HandleToggleSelect(id)
       /\ UNCHANGED net
    \/ /\ \E id \in Ids : HandleDragStart(id)
       /\ UNCHANGED net
    \/ /\ \E targetId \in Ids : HandleDrop(targetId)
       /\ UNCHANGED net
    \/ /\ \E q \in Queries : HandleSearchChange(q)
       /\ UNCHANGED net

Spec == Init /\ [][Next]_vars

---------------------------------------------------------------------------
\* handleDrop on its own, over every list a server may have delivered: the
\* state is the one right after a page-1 response that delivered the list,
\* with any earlier drag still recorded in dragItem.

ReorderIds == 1..4

MaxReorderLen == 4

ReorderLists ==
    UNION {[1..k -> {Item(i) : i \in ReorderIds}] : k \in 0..MaxReorderLen}

ReorderInit ==
    /\ items \in ReorderLists
    /\ originalItems = items
    /\ lastFetched = items
    /\ selected = <<>>
    /\ page = 1
    /\ query = ""
    /\ loadingRef = TRUE
    /\ dragItem \in {NoDrag} \cup ReorderIds
    /\ pending = <<GetItems(1, "")>>
    /\ sent = <<GetItems(1, "")>>
    /\ ev = Event("response", 0, "", 1, FALSE, <<>>)
    /\ startSel = {}
    /\ oddToggled = {}
    /\ asked = [first |-> 1, last |-> 1]
    /\ net = NetIdle

ReorderNext ==
    \/ /\ \E id \in ReorderIds : HandleDragStart(id)
       /\ UNCHANGED net
    \/ /\ \E targetId \in ReorderIds : HandleDrop(targetId)
       /\ UNCHANGED net

ReorderSpec == ReorderInit /\ [][ReorderNext]_vars

---------------------------------------------------------------------------
\* The component together with the remote side of section 6 of the
\* specification: the server stores the selection of the last
\* /save-selection post it has processed and reports it in every GET /items
\* answer.  Requests travel independently, so posts may be processed in any
\* order, and a GET may be answered before or after a post issued earlier.
\* Every request is answered successfully, and the user makes at most
\* MaxGestures gestures.

MaxGestures == 3

\* the selections the server may hold at the start
StoredSelections == {<<>>, <<2>>}

SyncInit ==
    /\ AppInit
    /\ net \in {[NetIdle EXCEPT !.selected = s] : s \in StoredSelections}

\* The remote side after a step of the component: its posts of the selection
\* set out, and a GET it issued has no answer yet.
NetAfterStep(gesture) ==
    LET posts == SelectSeq(sent', LAMBDA r : r.url = "/save-selection")
        gets  == SelectSeq(sent', LAMBDA r : r.url = "/items")
    IN  net' = [net EXCEPT
                  !.saves = @ \o [k \in 1..Len(posts) |-> posts[k].body],
                  !.reply = IF gets = <<>> THEN @ ELSE <<>>,
                  !.gestures = IF gesture THEN @ + 1 ELSE @]

SyncToggle(id) ==
    /\ net.gestures < MaxGestures
    /\ HandleToggleSelect(id)
    /\ NetAfterStep(TRUE)

SyncSearch(q) ==
    /\ net.gestures < MaxGestures
    /\ HandleSearchChange(q)
    /\ NetAfterStep(TRUE)

\* The server answers the GET in flight with the selection it holds.
ServerGet ==
    /\ pending # <<>>
    /\ net.reply = <<>>
    /\ net' = [net EXCEPT !.reply = <<net.selected>>]
    /\ UNCHANGED appVars

\* The server processes one of the posts under way, whichever arrives first.
ServerSave(k) ==
    /\ k \in 1..Len(net.saves)
    /\ net' = [net EXCEPT !.selected = net.saves[k],
                          !.saves = RemoveAt(net.saves, k)]
    /\ UNCHANGED appVars

\* The answer reaches the component.
SyncResponse ==
    /\ net.reply # <<>>
    /\ ResponseOk(1, net.reply[1])
    /\ NetAfterStep(FALSE)

SyncNext ==
    \/ \E id \in Ids : SyncToggle(id)
    \/ \E q \in Queries : SyncSearch(q)
    \/ ServerGet
    \/ \E k \in 1..MaxGestures : ServerSave(k)
    \/ SyncResponse

SyncSpec ==
    /\ SyncInit
    /\ [][SyncNext]_vars
    /\ WF_vars(ServerGet)
    /\ WF_vars(\E k \in 1..MaxGestures : ServerSave(k))
    /\ WF_vars(SyncResponse)

---------------------------------------------------------------------------
\* Vocabulary of the properties.

NoDuplicates(its) == \A i, j \in 1..Len(its) : its[i].id = its[j].id => i = j

IsRequest(r, url) == r.url = url

Requests(reqs, url) == SelectSeq(reqs, LAMBDA r : IsRequest(r, url))

\* x stands immediately before y in its
ImmediatelyBefore(its, x, y) ==
    \E i \in 1..(Len(its) - 1) : its[i].id = x /\ its[i + 1].id = y

---------------------------------------------------------------------------
\* C1: at most one GET /items request is in flight in every reachable state,
\* and while one is in flight loadingRef is set, so that no callback starts a
\* second one.
C1_OneFetchInFlight ==
    /\ Len(pending) <= 1
    /\ Len(pending) = 1 <=> loadingRef

\* a query change arrived while the fetch of another query was in flight, and
\* issued nothing
C1_Witness ==
    /\ ev.op = "search"
    /\ sent = <<>>
    /\ Len(pending) = 1
    /\ pending[1].query # query

\* C2: a successful response for page p makes items exactly the fetched items
\* when p = 1, and the prior items, in their order, followed by the fetched
\* items when p > 1.
C2_ReplaceOrAppend ==
    [][ev'.op = "response" =>
          items' = IF ev'.page = 1 THEN ServerPage(ev'.page, ev'.query)
                   ELSE items \o ServerPage(ev'.page, ev'.query)]_vars

\* page 2 was appended to a list that had been reordered locally
C2_Witness ==
    /\ ev.op = "response"
    /\ ev.page = 2
    /\ ev.query = ""
    /\ IdsOf(items) = <<2, 1, 3>>

\* C3: originalItems is the item list of the most recent successful fetch in
\* every reachable state; only a response sets it.
C3_OriginalIsLastFetched == originalItems = lastFetched

\* a reorder changed items and left originalItems the fetched page
C3_Witness ==
    /\ ev.op = "drop"
    /\ Len(Requests(sent, "/save-order")) = 1
    /\ originalItems # <<>>
    /\ originalItems # items
    /\ originalItems = lastFetched

\* C4: after a successful response the selection is exactly the selection the
\* server reported in it, whatever it was before.
C4_SelectionReplaced ==
    ev.op = "response" =>
        /\ selected = NewSet(ev.selected)
        /\ Range(selected) = Range(ev.selected)

\* page 1 of query "" delivered items 1 and 2 and reported [2]
C4_Witness ==
    /\ ev.op = "response"
    /\ ev.page = 1
    /\ ev.query = ""
    /\ ev.selected = <<2>>
    /\ selected = <<2>>
    /\ IdsOf(items) = <<1, 2>>

\* C5: a failed fetch leaves items, selected and originalItems as they were,
\* issues no request, clears loadingRef and leaves no fetch in flight.
C5_FailureChangesNothing ==
    [][ev'.op = "error" =>
          /\ items' = items
          /\ selected' = selected
          /\ originalItems' = originalItems
          /\ sent' = <<>>
          /\ ~loadingRef'
          /\ pending' = <<>>]_vars

\* a fetch failed with a list on display
C5_Witness ==
    /\ ev.op = "error"
    /\ items # <<>>
    /\ selected # <<>>
    /\ ~loadingRef

\* C6: in a run of toggles that began with id not selected, id is selected
\* exactly when it was toggled an odd number of times, whatever other ids
\* were toggled.
C6_ToggleParity ==
    \A id \in Ids :
        id \notin startSel => (SetHas(selected, id) <=> id \in oddToggled)

\* an id toggled an even number of times, another one an odd number of times
C6_Witness ==
    /\ ev.op = "toggle"
    /\ ev.id \notin startSel
    /\ ev.id \notin oddToggled
    /\ oddToggled # {}
    /\ ~SetHas(selected, ev.id)

\* C7: every toggle issues exactly one /save-selection request, and its
\* payload, as a set, is the whole selection as it is after the toggle.
C7_TogglePostsWholeSelection ==
    ev.op = "toggle" =>
        /\ Len(Requests(sent, "/save-selection")) = 1
        /\ Range(Requests(sent, "/save-selection")[1].body) = Range(selected)

\* item 1 was toggled on while 2 was selected: the post carries both
C7_Witness ==
    /\ ev.op = "toggle"
    /\ ev.id = 1
    /\ Range(selected) = {1, 2}
    /\ sent[1].body = <<2, 1>>

\* C8: a drop is a no-op when no drag was started, when the dragged id is the
\* target, or when either id is not in items: items is unchanged and no
\* /save-order request is issued.
C8_DropNoOp ==
    [][(/\ ev'.op = "drop"
        /\ \/ dragItem = NoDrag
           \/ dragItem = ev'.id
           \/ FindIndex(items, dragItem) = 0
           \/ FindIndex(items, ev'.id) = 0)
       => /\ items' = items
          /\ Requests(sent', "/save-order") = <<>>]_vars

\* the dragged item had left the list before the drop
C8_Witness ==
    /\ ev.op = "drop"
    /\ dragItem # NoDrag
    /\ dragItem # ev.id
    /\ FindIndex(items, dragItem) = 0
    /\ sent = <<>>

\* C9: for distinct ids both present in a duplicate-free list, a drop moves
\* one item: the result is a permutation of the list, the dragged item stands
\* at the index the target had, and the other items keep their order;
\* [1,2,3,4] with 1 dropped on 3 becomes [2,3,1,4].
C9_SingleItemMove ==
    [][(/\ ev'.op = "drop"
        /\ DropEffective(items, dragItem, ev'.id)
        /\ NoDuplicates(items))
       => LET di == FindIndex(items, dragItem)
              ti == FindIndex(items, ev'.id)
          IN  /\ Len(items') = Len(items)
              /\ Range(items') = Range(items)
              /\ items'[ti] = items[di]
              /\ RemoveAt(items', ti) = RemoveAt(items, di)
              /\ (IdsOf(items) = <<1, 2, 3, 4>> /\ dragItem = 1 /\ ev'.id = 3)
                    => IdsOf(items') = <<2, 3, 1, 4>>]_vars

\* 1 was dropped on 3 and the list reads [2,3,1,4]
C9_Witness ==
    /\ ev.op = "drop"
    /\ ev.id = 3
    /\ dragItem = 1
    /\ IdsOf(items) = <<2, 3, 1, 4>>
    /\ Len(Requests(sent, "/save-order")) = 1

\* C10 as claimed: after an effective drop the dragged item stands
\* immediately before the target, wherever it was before.
C10_AlwaysBeforeTarget ==
    [][(ev'.op = "drop" /\ DropEffective(items, dragItem, ev'.id))
       => ImmediatelyBefore(items', dragItem, ev'.id)]_vars

\* C10 as the code has it: after an effective drop the dragged item stands at
\* the index the target had; that is immediately before the target when it
\* was dragged from behind the target, and immediately after the target when
\* it was dragged from before it.
C10_AtTargetIndex ==
    [][(ev'.op = "drop" /\ DropEffective(items, dragItem, ev'.id))
       => LET di == FindIndex(items, dragItem)
              ti == FindIndex(items, ev'.id)
          IN  /\ items'[ti].id = dragItem
              /\ di > ti => items'[ti + 1].id = ev'.id
              /\ di < ti => items'[ti - 1].id = ev'.id]_vars

\* an item dragged from before the target stands right after it
C10_Witness ==
    /\ ev.op = "drop"
    /\ Len(Requests(sent, "/save-order")) = 1
    /\ NoDuplicates(items)
    /\ Len(items) = 3
    /\ ImmediatelyBefore(items, ev.id, dragItem)
    /\ ~ImmediatelyBefore(items, dragItem, ev.id)

\* C11: every effective drop issues exactly one /save-order request, and its
\* payload is the ids of the whole list in its new order.
C11_DropPostsNewOrder ==
    [][(ev'.op = "drop" /\ DropEffective(items, dragItem, ev'.id))
       => /\ Len(Requests(sent', "/save-order")) = 1
          /\ Requests(sent', "/save-order")[1].body = IdsOf(items')
          /\ sent'[1].url = "/save-order"]_vars

\* item 2 was dropped on item 1 in [1,2,3]; the post carries [2,1,3]
C11_Witness ==
    /\ ev.op = "drop"
    /\ ev.id = 1
    /\ dragItem = 2
    /\ Len(sent) >= 1
    /\ sent[1] = SaveOrder(<<2, 1, 3>>)
    /\ IdsOf(items) = <<2, 1, 3>>

\* C12: page is at least 1 in every reachable state, and right after a query
\* change the page is 1 and the query is the new one, with or without a fetch
\* in flight.
C12_QueryChangeResetsPage ==
    /\ page >= 1
    /\ ev.op = "search" => (page = 1 /\ query = ev.query)

\* the query changed while the fetch of page 2 was in flight
C12_Witness ==
    /\ ev.op = "search"
    /\ pending = <<GetItems(2, "")>>
    /\ page = 1
    /\ query = "a"

\* C13: a query change to "" sets items to exactly the originalItems of that
\* moment; a query change to a non-empty query leaves items as they were.
C13_ClearRestoresOriginal ==
    [][ev'.op = "search" =>
          /\ ev'.query = "" => items' = originalItems
          /\ ev'.query # "" => items' = items
          /\ originalItems' = originalItems]_vars

\* the search was cleared after page 2 had been appended: only page 2 is left
C13_Witness ==
    /\ ev.op = "search"
    /\ ev.query = ""
    /\ IdsOf(items) = <<3>>
    /\ originalItems = items

\* C14 as claimed, in the form a finite run decides: whenever no fetch is in
\* flight, page 1 of the current query has been requested since that query
\* became the query.
C14_QueryChangeFetches == pending = <<>> => asked.first = 1

\* C15: a near-bottom scroll with no fetch in flight adds exactly 1 to page
\* and issues exactly one request, for (page + 1, query); with a fetch in
\* flight it leaves page alone and issues nothing; and the successful
\* response of a request for a page above 1 is appended to the list.
C15_ScrollFetchesNextPage ==
    [][/\ (ev'.op = "scroll" /\ ev'.near /\ pending = <<>>)
            => /\ page' = page + 1
               /\ query' = query
               /\ sent' = <<GetItems(page + 1, query)>>
               /\ pending' = <<GetItems(page + 1, query)>>
       /\ (ev'.op = "scroll" /\ ev'.near /\ pending # <<>>)
            => /\ page' = page
               /\ sent' = <<>>
               /\ pending' = pending
       /\ (ev'.op = "response" /\ ev'.page > 1)
            => /\ SubSeq(items', 1, Len(items)) = items
               /\ SubSeq(items', Len(items) + 1, Len(items'))
                    = ServerPage(ev'.page, ev'.query)]_vars

\* a near-bottom scroll with nothing in flight has just requested page 2
C15_Witness ==
    /\ ev.op = "scroll"
    /\ ev.near
    /\ ev.page = 1
    /\ page = 2
    /\ sent = <<GetItems(2, query)>>
    /\ pending = sent

\* C16 as claimed: no id occurs twice in items, in any reachable state.
C16_UniqueIds == NoDuplicates(items)

\* C17: a query change cancels nothing: the request in flight stays in
\* flight, and its response is applied with the page it was issued for
\* (replace for page 1, append above) although the query is another one by
\* then.
C17_StaleResponseApplied ==
    [][/\ (ev'.op = "search" /\ pending # <<>>) => pending' = pending
       /\ (ev'.op = "response" /\ ev'.query # query)
            => /\ items' = IF ev'.page = 1
                           THEN ServerPage(ev'.page, ev'.query)
                           ELSE items \o ServerPage(ev'.page, ev'.query)
               /\ query' = query]_vars

\* the query is "a" and the list holds item 2, which only query "" returns
C17_Witness ==
    /\ ev.op = "response"
    /\ ev.query = ""
    /\ query = "a"
    /\ Item(2) \in Range(items)
    /\ Item(2) \notin Range(Catalogue(query))

\* C19 as claimed: the first request for a query is for page 1, and a request
\* issued by a scroll is for the page one above the page of the previous
\* request for that query.
C19_ConsecutivePages ==
    [][LET gets == Requests(sent', "/items")
       IN  gets # <<>> =>
             /\ (ev'.op = "search" \/ asked.last = 0) => gets[1].page = 1
             /\ ev'.op = "scroll" =>
                   (asked.last >= 1 /\ gets[1].page = asked.last + 1)]_vars

\* C20: when a response arrives right after a reorder made while its request
\* was in flight, a page above 1 is appended to the reordered list, which is
\* kept as it is, and page 1 replaces the reordered list.
C20_ReorderUnderFetch ==
    [][(/\ ev.op = "drop"
        /\ Len(Requests(sent, "/save-order")) = 1
        /\ ev'.op = "response")
       => IF ev'.page > 1
          THEN items' = items \o ServerPage(ev'.page, ev'.query)
          ELSE items' = ServerPage(ev'.page, ev'.query)]_vars

\* 2 had been dragged onto 1 while page 2 was in flight; page 2 followed
C20_Witness ==
    /\ ev.op = "response"
    /\ ev.page = 2
    /\ dragItem = 2
    /\ lastFetched = <<Item(3)>>
    /\ IdsOf(items) = <<2, 1, 3>>

\* C18: once the user's gestures have stopped and every request is answered,
\* the local selection equals, as a set, the selection the server stores,
\* and stays so.
C18_EventuallyConsistent ==
    <>[](Range(selected) = Range(net.selected))

\* an item was toggled while the fetch in flight had already been answered
\* with the selection of before the toggle
C18_Witness ==
    /\ ev.op = "toggle"
    /\ pending # <<>>
    /\ net.reply # <<>>
    /\ net.saves # <<>>
    /\ Range(net.reply[1]) # Range(selected)
    /\ Range(net.selected) # Range(selected)

====
